---- MODULE Spec2Model ----
(***************************************************************************)
(* Model of "WD Standard Stars Calibration Plots.py": the script that      *)
(* reads the LDS749B calibration tables of the two GALEX bands, derives    *)
(* the validity mask, and writes the gAperture and MCAT scatter and        *)
(* distribution figures.                                                   *)
(*                                                                         *)
(* Units.  Magnitudes are integers in millimagnitudes (15.6 AB mag is      *)
(* 15600), exposure times in seconds, aperture radii in tenths of an       *)
(* arcsecond (0.025 deg = 90 arcsec = 900).  A missing numpy value (NaN)   *)
(* is the value NaN below.                                                 *)
(***************************************************************************)
EXTENDS Integers, Sequences, FiniteSets, TLC

VARIABLES
    files,      \* the two input files on disk, by band (never written)
    order,      \* the order data.keys() yields the bands in
    pc,         \* the block of the script that runs next
    bi,         \* position of the running band loop in order
    data,       \* data[band]: the table read_lc returned
    ix,         \* ix[band]: the validity mask (row indices), once computed
    written,    \* the paths handed to plt.savefig, in call order
    out,        \* what each block printed or drew, by <<block, band>>:
                \* <<>> until the block has run for the band, then <<record>>
    err,        \* the exception that ended the run, or "none"
    ksample,    \* make_kde: the data argument
    krange,     \* make_kde: the datarange argument
    kpc,        \* make_kde: position ("search", "fit", "done", "failed")
    ksent,      \* grid search: number of tasks dispatched so far
    krunning,   \* grid search: tasks a worker holds
    kscores,    \* grid search: result list, one slot per task
    kbandwidth, \* make_kde: grid.best_params_['bandwidth']
    ky,         \* make_kde: y, the density on the grid
    kpeak,      \* make_kde: peak
    kreordered  \* history: a task finished while an earlier one was running

runvars == <<files, order, pc, bi, data, ix, written, out, err>>
kdevars == <<ksample, krange, kpc, ksent, krunning, kscores, kbandwidth, ky, kpeak,
            kreordered>>
vars == <<files, order, pc, bi, data, ix, written, out, err,
          ksample, krange, kpc, ksent, krunning, kscores, kbandwidth, ky, kpeak,
          kreordered>>

(***************************************************************************)
(* Bounds of the model.                                                    *)
(***************************************************************************)
\* rows in each input table
NRows == 2
\* number of folds of the cross-validation (cv=20 in the source, scaled)
CvFolds == 2
\* number of candidate bandwidths (100 in the source, scaled)
NBandwidths == 3
\* number of points of the evaluation grid (10000 in the source, scaled)
XGridSize == 4
\* largest sigma multiple the containment percentage is compared at
MaxSigma == 4
\* samples handed to make_kde when it is checked on its own
NSamples == 3

(***************************************************************************)
(* Constants of the script.                                                *)
(***************************************************************************)
\* a variable that holds no value yet
Unset == 0 - 1
\* numpy's nan
NaN == 0 - 2000000000
\* the table of a band before it is read
NoTable == [cols |-> {}, rows |-> <<>>]
\* the score of a fold whose held-out density is zero (log 0)
NegInf == 0 - 1000000000

Bands == {"FUV", "NUV"}
target == "LDS749B_90as"
outpath == "."
\* refmag = {'FUV':15.6,'NUV':14.76}
refmag == [b \in Bands |-> IF b = "FUV" THEN 15600 ELSE 14760]
\* radius = 0.025 (degrees)
radius == 900
nsigma == 3
bincnt == 50
\* n_jobs=4
NJobs == 4
\* bwrange=[0.01,1]
BwLo == 10
BwHi == 1000

Blocks == {"mask", "gscatter", "gdist", "mscatter", "mdist"}

\* the columns of a table the script reads
Columns == {"exptime", "aper4", "flags", "mag_mcatbgsub",
            "mag_mcatbgsub_err_1", "mag_mcatbgsub_err_2",
            "mag_bgsub_err_1", "mag_bgsub_err_2"}

(***************************************************************************)
(* Small helpers over sequences (numpy arrays).                            *)
(***************************************************************************)
Range(s) == {s[k] : k \in DOMAIN s}

Abs(v) == IF v < 0 THEN -v ELSE v

RECURSIVE SumSeq(_)
SumSeq(s) ==
    IF s = <<>> THEN 0 ELSE Head(s) + SumSeq(Tail(s))

RECURSIVE Isqrt(_)
\* integer square root: the largest r with r*r <= v
Isqrt(v) ==
    IF v < 2 THEN v
    ELSE LET r == 2 * Isqrt(v \div 4)
         IN  IF (r + 1) * (r + 1) <= v THEN r + 1 ELSE r

\* arr[idx]: numpy fancy indexing of an array by an index array
Take(arr, idx) == [k \in 1..Len(idx) |-> arr[idx[k]]]

\* np.array(data[band][col]): one column of a table as an array
Column(table, col) == [k \in 1..Len(table.rows) |-> table.rows[k][col]]

(***************************************************************************)
(* gPhoton functions the script calls.                                     *)
(***************************************************************************)
\* radii (tenths of an arcsecond) of the tabulated aperture corrections
ApertureRadii == <<15, 23, 38, 60, 90, 128, 173, 300, 600, 900>>

\* the band's correction curve, in millimagnitudes, at ApertureRadii
ApertureDmag(band) ==
    IF band = "FUV"
    THEN <<1650, 960, 360, 150, 100, 90, 70, 60, 30, 10>>
    ELSE <<2090, 1330, 590, 230, 130, 90, 70, 40, 0, -10>>

\* gt.aper2deg(apercode): the radius of a catalog aperture code
Aper2Deg(apercode) == ApertureRadii[apercode]

\* gt.apcorrect1(radius, band): the correction looked up on the band's
\* curve, interpolated linearly between tabulated radii
ApCorrect1(rad, band) ==
    LET aper == ApertureRadii
        dmag == ApertureDmag(band)
        n    == Len(aper)
    IN  IF rad > aper[n] THEN 0
        ELSE IF band = "NUV" /\ rad > aper[n - 1] THEN 0
        ELSE IF rad < aper[1] THEN dmag[1]
        ELSE LET hi == CHOOSE k \in 1..n :
                          aper[k] >= rad /\ \A j \in 1..n : aper[j] >= rad => k <= j
                 lo == CHOOSE k \in 1..n :
                          aper[k] <= rad /\ \A j \in 1..n : aper[j] <= rad => j <= k
             IN  IF hi = lo THEN dmag[hi]
                 ELSE dmag[lo] + (((dmag[hi] - dmag[lo]) * (rad - aper[lo]))
                                     \div (aper[hi] - aper[lo]))

\* the count rate (counts per second) of a source of the band's reference
\* magnitude
RefCounts(band) == IF band = "FUV" THEN 19 ELSE 134

\* half-width, in millimagnitudes, of the sigma envelope at exposure time t:
\* sigma * 2.5/ln(10) / sqrt(counts), the Poisson error of counts = rate * t
EnvelopeHalfWidth(band, t, sigma) ==
    (1086 * sigma) \div Isqrt(RefCounts(band) * t)

\* data_errors(catmag, band, t, sigma): <<a, b>>, the faint (numerically
\* larger) and the bright (numerically smaller) bound at exposure time t
DataErrors(catmag, band, t, sigma) ==
    <<catmag + EnvelopeHalfWidth(band, t, sigma),
      catmag - EnvelopeHalfWidth(band, t, sigma)>>

\* the columns a table must carry to load
RequiredColumns == {"exptime", "aper4", "flags", "mag_mcatbgsub",
                    "mag_mcatbgsub_err_1", "mag_mcatbgsub_err_2"}

\* read_lc(path): the table of the file, or a ParseError when the file is
\* missing or malformed or lacks a required column
ReadLc(file) ==
    IF file.status = "ok" /\ RequiredColumns \subseteq file.cols
    THEN [ok |-> TRUE, table |-> [cols |-> file.cols, rows |-> file.rows]]
    ELSE [ok |-> FALSE, table |-> NoTable]

(***************************************************************************)
(* numpy operations the script uses.                                       *)
(***************************************************************************)
RECURSIVE WhereFrom(_, _)
\* np.where(cond)[0]: the indices at which cond holds, ascending
WhereFrom(cond, k) ==
    IF k > Len(cond) THEN <<>>
    ELSE IF cond[k] THEN <<k>> \o WhereFrom(cond, k + 1)
    ELSE WhereFrom(cond, k + 1)

Where(cond) == WhereFrom(cond, 1)

RECURSIVE Insert(_, _)
Insert(v, s) ==
    IF s = <<>> THEN <<v>>
    ELSE IF v <= Head(s) THEN <<v>> \o s
    ELSE <<Head(s)>> \o Insert(v, Tail(s))

RECURSIVE SortAsc(_)
SortAsc(s) ==
    IF s = <<>> THEN <<>> ELSE Insert(Head(s), SortAsc(Tail(s)))

\* np.median(arr), doubled to stay an integer; NaN for an empty array
Median2(arr) ==
    LET s == SortAsc(arr)
        n == Len(s)
    IN  IF n = 0 THEN NaN
        ELSE IF n % 2 = 1 THEN 2 * s[(n + 1) \div 2]
        ELSE s[n \div 2] + s[(n \div 2) + 1]

\* np.linspace(lo, hi, n)[k-1], for k in 1..n
Linspace(lo, hi, n, k) ==
    IF n = 1 THEN lo ELSE lo + (((k - 1) * (hi - lo)) \div (n - 1))

\* Histogram with the last bin half-open: the upper end is in no bin
HistogramHalfOpen(vals, bins, lo, hi) ==
    [j \in 1..bins |->
        Cardinality({k \in DOMAIN vals :
                        /\ vals[k] >= lo
                        /\ vals[k] < hi
                        /\ (((vals[k] - lo) * bins) \div (hi - lo)) + 1 = j})]

\* np.histogram(vals, bins, range)[0]: the count of each bin; a value
\* outside [lo, hi] is in no bin, and hi itself is in the last bin
Histogram(vals, bins, lo, hi) ==
    LET BinOf(v) == IF v = hi THEN bins ELSE (((v - lo) * bins) \div (hi - lo)) + 1
    IN  [j \in 1..bins |->
            Cardinality({k \in DOMAIN vals :
                            vals[k] >= lo /\ vals[k] <= hi /\ BinOf(vals[k]) = j})]

(***************************************************************************)
(* scikit-learn: KernelDensity (Gaussian kernel) and GridSearchCV, in      *)
(* fixed-point arithmetic.  A density is scaled by 1000; a log-likelihood  *)
(* is in sixteenths of a bit.                                              *)
(***************************************************************************)
\* 1000 * exp(-u*u/2) at u = 0, 1/4, 2/4, ...; zero from u = 4 on
GaussTable == <<1000, 969, 882, 755, 607, 458, 325, 216,
                135, 80, 44, 23, 11, 5, 2, 1>>

\* the Gaussian kernel of bandwidth h at distance d
Kernel(d, h) ==
    LET q == (4 * d) \div h
    IN  IF q >= Len(GaussTable) THEN 0 ELSE GaussTable[q + 1]

RECURSIVE KernelSum(_, _, _)
KernelSum(train, h, x) ==
    IF train = <<>> THEN 0
    ELSE Kernel(Abs(x - Head(train)), h) + KernelSum(Tail(train), h, x)

\* exp(kde.score_samples(x)): the density at x of a KernelDensity of
\* bandwidth h fitted on train
Density(train, h, x) ==
    (KernelSum(train, h, x) * 1000) \div (h * Len(train))

RECURSIVE Log2Floor(_)
Log2Floor(v) == IF v < 2 THEN 0 ELSE 1 + Log2Floor(v \div 2)

\* log of a density; log 0 is minus infinity
LogFix(v) ==
    IF v <= 0 THEN NegInf
    ELSE LET e == Log2Floor(v)
         IN  16 * e + (((v - 2^e) * 16) \div (2^e))

\* addition of log-likelihoods, minus infinity absorbing
AddLog(u, v) == IF u = NegInf \/ v = NegInf THEN NegInf ELSE u + v

\* the k-th candidate of np.linspace(bwrange[0], bwrange[1], 100)
Bandwidth(c) == Linspace(BwLo, BwHi, NBandwidths, c)

\* KFold(n, n_folds=cv): the test indices of fold f, contiguous and unshuffled
FoldSize(n, f) == (n \div CvFolds) + (IF f <= (n % CvFolds) THEN 1 ELSE 0)

FoldStart(n, f) ==
    (f - 1) * (n \div CvFolds)
        + (IF f - 1 <= (n % CvFolds) THEN f - 1 ELSE (n % CvFolds)) + 1

TestIdx(n, f) == FoldStart(n, f) .. (FoldStart(n, f) + FoldSize(n, f) - 1)

\* the tasks of the search: (candidate, fold) pairs in generation order,
\* candidate-major
NTasks == NBandwidths * CvFolds
TaskCand(t) == ((t - 1) \div CvFolds) + 1
TaskFold(t) == ((t - 1) % CvFolds) + 1
TaskOf(c, f) == (c - 1) * CvFolds + f

RECURSIVE ScoreOver(_, _, _, _)
\* the total log-likelihood of the held-out points sample[k], k in pending
ScoreOver(sample, train, h, pending) ==
    IF pending = <<>> THEN 0
    ELSE AddLog(LogFix(Density(train, h, sample[Head(pending)])),
                ScoreOver(sample, train, h, Tail(pending)))

\* one task: KernelDensity(bandwidth).fit(train).score(test) on fold f
FoldScore(sample, c, f) ==
    LET n     == Len(sample)
        test  == TestIdx(n, f)
        train == Take(sample, Where([k \in 1..n |-> k \notin test]))
        tseq  == Where([k \in 1..n |-> k \in test])
    IN  ScoreOver(sample, train, Bandwidth(c), tseq)

RECURSIVE WeightedSum(_, _, _, _)
\* iid=True: the fold scores of candidate c weighted by the folds' test sizes
WeightedSum(scores, n, c, f) ==
    IF f > CvFolds THEN 0
    ELSE AddLog(IF scores[TaskOf(c, f)] = NegInf THEN NegInf
                ELSE scores[TaskOf(c, f)] * FoldSize(n, f),
                WeightedSum(scores, n, c, f + 1))

\* mean_validation_score of candidate c, times the number of samples
MeanScore(scores, n, c) == WeightedSum(scores, n, c, 1)

RECURSIVE BestFrom(_, _, _, _)
\* sorted(grid_scores, key=mean_validation_score, reverse=True)[0]: the
\* sort is stable, so among equal scores the earliest candidate is kept
BestFrom(scores, n, c, best) ==
    IF c > NBandwidths THEN best
    ELSE IF MeanScore(scores, n, c) > MeanScore(scores, n, best)
         THEN BestFrom(scores, n, c + 1, c)
         ELSE BestFrom(scores, n, c + 1, best)

\* grid.best_params_['bandwidth'] of a finished search
BestBandwidth(scores, n) == Bandwidth(BestFrom(scores, n, 2, 1))

\* x = np.linspace(datarange[0], datarange[1], 10000)
XGrid(lo, hi) == [k \in 1..XGridSize |-> Linspace(lo, hi, XGridSize, k)]

\* y = np.exp(kde_skl.score_samples(x)) for the density fitted on sample
GridDensity(sample, h, x) == [k \in DOMAIN x |-> Density(sample, h, x[k])]

RECURSIVE MaxSeq(_)
\* y.max()
MaxSeq(y) ==
    IF Len(y) = 1 THEN y[1]
    ELSE LET m == MaxSeq(Tail(y)) IN IF Head(y) >= m THEN Head(y) ELSE m

\* Peak taking the last grid point of maximal density
PeakLast(x, y) ==
    LET at == Take(x, Where([k \in DOMAIN y |-> y[k] = MaxSeq(y)]))
    IN  at[Len(at)]

\* peak = x[np.where(y==y.max())][0]
Peak(x, y) == Take(x, Where([k \in DOMAIN y |-> y[k] = MaxSeq(y)]))[1]

\* make_kde(data, datarange) run to completion: the search's result list
\* holds every task's score in task order, whatever order they finished in
MakeKde(sample, lo, hi) ==
    IF Len(sample) < CvFolds
    THEN [ok |-> FALSE, err |-> "ValueError"]
    ELSE LET scores == [t \in 1..NTasks |-> FoldScore(sample, TaskCand(t), TaskFold(t))]
             bw     == BestBandwidth(scores, Len(sample))
             x      == XGrid(lo, hi)
             y      == GridDensity(sample, bw, x)
         IN  [ok |-> TRUE, err |-> "none", x |-> x, y |-> y,
              peak |-> Peak(x, y), bandwidth |-> bw]

(***************************************************************************)
(* The input files.                                                        *)
(***************************************************************************)
\* a row of a table, given as offsets from the values that correct to the
\* band's reference magnitude
RowAt(band, fl, hascat, da, dm, t) ==
    [flags |-> fl,
     aper4 |-> IF ~hascat THEN 0 - 999000
               ELSE refmag[band] + ApCorrect1(Aper2Deg(4), band) + da,
     mag_mcatbgsub |-> refmag[band] + ApCorrect1(radius, band) + dm,
     exptime |-> t]

\* the rows a table is drawn from: a flagged row; a row without a catalog
\* magnitude; a row on the faint 3-sigma bound of its exposure time; a row
\* that is inside the envelope at its own (short) exposure time only; and
\* two rows on and beyond the edges of the histogram ranges
RowKinds(band) ==
    LET hw == EnvelopeHalfWidth(band, 100, nsigma)
    IN  { RowAt(band, 1, TRUE, 0, 0, 100),
          RowAt(band, 0, FALSE, 0, 0, 100),
          RowAt(band, 0, TRUE, hw, hw, 100),
          RowAt(band, 0, TRUE, hw + 1, hw + 1, 30),
          RowAt(band, 0, TRUE, 900, 700, 100),
          RowAt(band, 0, TRUE, 600, 0 - 300, 100) }

Tables(band) == [1..NRows -> RowKinds(band)]

NominalRows(band) ==
    [k \in 1..NRows |-> RowAt(band, 0, TRUE, EnvelopeHalfWidth(band, 100, nsigma), 0, 100)]

GoodFile(rows) == [status |-> "ok", cols |-> Columns, rows |-> rows]

\* a file that is missing, is malformed, or lacks one column
FaultyFiles(band) ==
    { [status |-> st, cols |-> Columns, rows |-> NominalRows(band)] :
          st \in {"missing", "malformed"} }
    \cup { [status |-> "ok", cols |-> Columns \ {c}, rows |-> NominalRows(band)] :
          c \in Columns }

\* the tables whose rows are all of one kind
UniformTables(band) == { [k \in 1..NRows |-> r] : r \in RowKinds(band) }

\* the pairs of well-formed files: one band's table is any table, the other
\* band's table is uniform
InputFiles ==
    { [b \in Bands |-> GoodFile(IF b = "FUV" THEN f ELSE n)] :
          f \in Tables("FUV"), n \in UniformTables("NUV") }
    \cup { [b \in Bands |-> GoodFile(IF b = "FUV" THEN f ELSE n)] :
          f \in UniformTables("FUV"), n \in Tables("NUV") }
    \cup UNION { { [b \in Bands |-> IF b = bad THEN x ELSE GoodFile(NominalRows(b))] :
                      x \in FaultyFiles(bad) } : bad \in Bands }

\* the orders in which data.keys() may yield the bands
KeyOrders == {<<"FUV", "NUV">>, <<"NUV", "FUV">>}

(***************************************************************************)
(* The script.                                                             *)
(***************************************************************************)
band == order[bi]

Minus(arr, c) == [k \in DOMAIN arr |-> arr[k] - c]

\* data[band][col] raises KeyError when the table has no such column
HasColumns(b, cols) == cols \subseteq data[b].cols

\* the step to the next band of the running loop, or to the next block
Advance(next) ==
    IF bi < Len(order)
    THEN /\ bi' = bi + 1
         /\ pc' = pc
    ELSE /\ bi' = 1
         /\ pc' = next

Raise(e) ==
    /\ err' = e
    /\ pc' = "failed"
    /\ bi' = bi

\* plt.savefig(path)
Savefig(path) == written' = Append(written, path)

\* 100*cnt/len(ix[band][0]): integer division of two ints
Percent(cnt, total) == (100 * cnt) \div total

\* data = {'FUV': read_lc(...), 'NUV': read_lc(...)}
Load ==
    /\ pc = "load"
    /\ LET f == ReadLc(files["FUV"])
           n == ReadLc(files["NUV"])
       IN  IF f.ok /\ n.ok
           THEN /\ data' = [b \in Bands |-> IF b = "FUV" THEN f.table ELSE n.table]
                /\ pc' = "mask"
                /\ bi' = 1
                /\ err' = err
           ELSE /\ Raise("ParseError")
                /\ data' = data
    /\ UNCHANGED <<files, order, ix, written, out>>
    /\ UNCHANGED kdevars

\* ValidityMask without the aper4 > 0 condition
ValidityMaskFlagsOnly(table) ==
    Where([k \in 1..Len(table.rows) |-> table.rows[k].flags = 0])

\* np.where((data[band]['flags']==0) & (data[band]['aper4']>0))
ValidityMask(table) ==
    Where([k \in 1..Len(table.rows) |->
              table.rows[k].flags = 0 /\ table.rows[k].aper4 > 0])

\* the baseline statistics loop: one band
Mask ==
    /\ pc = "mask"
    /\ IF HasColumns(band, {"aper4", "flags"})
       THEN LET mask == ValidityMask(data[band])
            IN  /\ ix' = [ix EXCEPT ![band] = mask]
                /\ out' = [out EXCEPT ![<<"mask", band>>] = <<
                              [n |-> Len(Column(data[band], "aper4")),
                               bad |-> Len(Where([k \in 1..Len(data[band].rows) |->
                                           data[band].rows[k].flags # 0])),
                               median2 |-> Median2(Take(Column(data[band], "aper4"), mask))] >>]
                /\ Advance("gscatter")
                /\ err' = err
       ELSE /\ Raise("KeyError")
            /\ UNCHANGED <<ix, out>>
    /\ UNCHANGED <<files, order, data, written>>
    /\ UNCHANGED kdevars

(***************************************************************************)
(* gAperture photometry against exposure time.                             *)
(***************************************************************************)
\* the y of plt.errorbar: every row's magnitude, corrected
GErrorbarY(b) ==
    Minus(Column(data[b], "mag_mcatbgsub"), ApCorrect1(radius, b))

\* the y of plt.plot: the masked rows' magnitudes, corrected
GPlotY(b) ==
    Minus(Take(Column(data[b], "mag_mcatbgsub"), ix[b]), ApCorrect1(radius, b))

\* a,b = data_errors(refmag[band], band, exptime[ix[band]], sigma=nsigma)
Envelope(b, sigma) ==
    LET t == Take(Column(data[b], "exptime"), ix[b])
    IN  [k \in DOMAIN t |-> DataErrors(refmag[b], b, t[k], sigma)]

\* the left operand of the count's >= comparison
GCountLow(b) ==
    Minus(Take(Column(data[b], "mag_mcatbgsub"), ix[b]), ApCorrect1(radius, b))

\* the left operand of the count's <= comparison
GCountHigh(b) ==
    Minus(Take(Column(data[b], "mag_mcatbgsub"), ix[b]), ApCorrect1(radius, b))

\* Within, with every value compared against the bounds of the first row
WithinFirstRow(low, high, env, k) == low[k] >= env[1][2] /\ high[k] <= env[1][1]

\* Within, with both comparisons reversed: the values outside the envelope
WithinReversed(low, high, env, k) == low[k] <= env[k][2] \/ high[k] >= env[k][1]

\* whether the k-th masked value is within its own row's bounds
Within(low, high, env, k) == low[k] >= env[k][2] /\ high[k] <= env[k][1]

\* cnt = len(np.where((mags >= b) & (mags <= a))[0])
GCount(b, sigma) ==
    LET env == Envelope(b, sigma)
    IN  Len(Where([k \in DOMAIN env |-> Within(GCountLow(b), GCountHigh(b), env, k)]))

GScatterPath(b) == <<outpath, target, "ABMag", b, "pdf">>

GScatter ==
    /\ pc = "gscatter"
    /\ IF ~HasColumns(band, {"exptime", "mag_mcatbgsub",
                             "mag_mcatbgsub_err_1", "mag_mcatbgsub_err_2"})
       THEN /\ Raise("KeyError")
            /\ UNCHANGED <<written, out>>
       ELSE IF Len(ix[band]) = 0
       THEN /\ Raise("ZeroDivisionError")
            /\ UNCHANGED <<written, out>>
       ELSE /\ out' = [out EXCEPT ![<<"gscatter", band>>] = <<
                          [ebar |-> GErrorbarY(band),
                           pts |-> GPlotY(band),
                           n |-> Len(ix[band]),
                           cnt |-> GCount(band, nsigma),
                           total |-> Len(ix[band]),
                           percent |-> Percent(GCount(band, nsigma), Len(ix[band]))] >>]
            /\ Savefig(GScatterPath(band))
            /\ Advance("gdist")
            /\ err' = err
    /\ UNCHANGED <<files, order, data, ix>>
    /\ UNCHANGED kdevars

(***************************************************************************)
(* Distribution of the gAperture photometry.                               *)
(***************************************************************************)
\* magrange = [refmag[band]-0.2, refmag[band]+0.7]
GMagRange(b) == <<refmag[b] - 200, refmag[b] + 700>>

\* GMags with the correction of the catalog aperture
GMagsCatalogCorrection(b) ==
    Minus(Column(data[b], "mag_mcatbgsub"), ApCorrect1(Aper2Deg(4), b))

\* mags = np.array(data[band]['mag_mcatbgsub'])-gt.apcorrect1(radius,band)
GMags(b) ==
    Minus(Column(data[b], "mag_mcatbgsub"), ApCorrect1(radius, b))

\* GDistPath with the band in the file name
GDistPathWithBand(b) == <<outpath, target, "ABMag_dist", b, "pdf">>

\* the path has no band in it: '{path}/{target}_ABMag_dist.pdf'
GDistPath(b) == <<outpath, target, "ABMag_dist", "pdf">>

\* what a distribution block draws for one band from the masked sample
DistRecord(mags, sample, lo, hi, kde) ==
    [mags |-> mags,
     sample |-> sample,
     n |-> Len(sample),
     hist |-> Histogram(sample, bincnt, lo, hi),
     peak |-> kde.peak,
     bandwidth |-> kde.bandwidth,
     median2 |-> Median2(sample)]

GDist ==
    /\ pc = "gdist"
    /\ IF ~HasColumns(band, {"mag_mcatbgsub"})
       THEN /\ Raise("KeyError")
            /\ UNCHANGED <<written, out>>
       ELSE LET lo     == GMagRange(band)[1]
                hi     == GMagRange(band)[2]
                sample == Take(GMags(band), ix[band])
                kde    == MakeKde(sample, lo, hi)
            IN  IF ~kde.ok
                THEN /\ Raise(kde.err)
                     /\ UNCHANGED <<written, out>>
                ELSE /\ out' = [out EXCEPT ![<<"gdist", band>>] =
                                   << DistRecord(GMags(band), sample, lo, hi, kde) >>]
                     /\ Savefig(GDistPath(band))
                     /\ Advance("mscatter")
                     /\ err' = err
    /\ UNCHANGED <<files, order, data, ix>>
    /\ UNCHANGED kdevars

(***************************************************************************)
(* MCAT photometry against exposure time.                                  *)
(***************************************************************************)
MErrorbarY(b) ==
    Minus(Column(data[b], "aper4"), ApCorrect1(Aper2Deg(4), b))

MPlotY(b) ==
    Minus(Take(Column(data[b], "aper4"), ix[b]), ApCorrect1(Aper2Deg(4), b))

MCountLow(b) ==
    Minus(Take(Column(data[b], "aper4"), ix[b]), ApCorrect1(Aper2Deg(4), b))

MCountHigh(b) ==
    Minus(Take(Column(data[b], "aper4"), ix[b]), ApCorrect1(Aper2Deg(4), b))

MCount(b, sigma) ==
    LET env == Envelope(b, sigma)
    IN  Len(Where([k \in DOMAIN env |-> Within(MCountLow(b), MCountHigh(b), env, k)]))

MScatterPath(b) == <<outpath, target, "ABMag", b, "MCAT", "pdf">>

MScatter ==
    /\ pc = "mscatter"
    /\ IF ~HasColumns(band, {"exptime", "aper4",
                             "mag_bgsub_err_1", "mag_bgsub_err_2"})
       THEN /\ Raise("KeyError")
            /\ UNCHANGED <<written, out>>
       ELSE IF Len(ix[band]) = 0
       THEN /\ Raise("ZeroDivisionError")
            /\ UNCHANGED <<written, out>>
       ELSE /\ out' = [out EXCEPT ![<<"mscatter", band>>] = <<
                          [ebar |-> MErrorbarY(band),
                           pts |-> MPlotY(band),
                           n |-> Len(ix[band]),
                           cnt |-> MCount(band, nsigma),
                           total |-> Len(ix[band]),
                           percent |-> Percent(MCount(band, nsigma), Len(ix[band]))] >>]
            /\ Savefig(MScatterPath(band))
            /\ Advance("mdist")
            /\ err' = err
    /\ UNCHANGED <<files, order, data, ix>>
    /\ UNCHANGED kdevars

(***************************************************************************)
(* Distribution of the MCAT photometry.                                    *)
(***************************************************************************)
\* magrange = [refmag[band]-0.2, refmag[band]+0.6]
MMagRange(b) == <<refmag[b] - 200, refmag[b] + 600>>

\* mags = np.array(data[band]['aper4'])-gt.apcorrect1(gt.aper2deg(4),band)
MMags(b) ==
    Minus(Column(data[b], "aper4"), ApCorrect1(Aper2Deg(4), b))

\* the path has no band in it: '{path}/{target}_ABMag_dist_MCAT.pdf'
MDistPath(b) == <<outpath, target, "ABMag_dist_MCAT", "pdf">>

MDist ==
    /\ pc = "mdist"
    /\ IF ~HasColumns(band, {"aper4"})
       THEN /\ Raise("KeyError")
            /\ UNCHANGED <<written, out>>
       ELSE LET lo     == MMagRange(band)[1]
                hi     == MMagRange(band)[2]
                sample == Take(MMags(band), ix[band])
                kde    == MakeKde(sample, lo, hi)
            IN  IF ~kde.ok
                THEN /\ Raise(kde.err)
                     /\ UNCHANGED <<written, out>>
                ELSE /\ out' = [out EXCEPT ![<<"mdist", band>>] =
                                   << DistRecord(MMags(band), sample, lo, hi, kde) >>]
                     /\ Savefig(MDistPath(band))
                     /\ Advance("done")
                     /\ err' = err
    /\ UNCHANGED <<files, order, data, ix>>
    /\ UNCHANGED kdevars

(***************************************************************************)
(* The run of the script.                                                  *)
(***************************************************************************)
KdeIdle ==
    /\ ksample = <<>>
    /\ krange = <<0, 0>>
    /\ kpc = "idle"
    /\ ksent = 0
    /\ krunning = {}
    /\ kscores = <<>>
    /\ kbandwidth = Unset
    /\ ky = <<>>
    /\ kpeak = Unset
    /\ kreordered = FALSE

Init ==
    /\ files \in InputFiles
    /\ order \in KeyOrders
    /\ pc = "load"
    /\ bi = 1
    /\ data = [b \in Bands |-> NoTable]
    /\ ix = [b \in Bands |-> <<>>]
    /\ written = <<>>
    /\ out = [k \in Blocks \X Bands |-> <<>>]
    /\ err = "none"
    /\ KdeIdle

Next ==
    \/ Load
    \/ Mask
    \/ GScatter
    \/ GDist
    \/ MScatter
    \/ MDist

Spec == Init /\ [][Next]_vars

(***************************************************************************)
(* make_kde step by step: the grid search hands its (candidate, fold)      *)
(* tasks, in order, to at most n_jobs workers, which finish in any order.  *)
(***************************************************************************)
\* the magnitudes a sample is drawn from, by their place in the datarange
KdeValues(lo, hi) == {lo + 100, lo + 300, lo + 600, lo + 5300}

KdeRanges == {GMagRange("FUV"), MMagRange("NUV")}

SamplesOver(vals) == UNION { [1..n -> vals] : n \in 1..NSamples }

\* Collect filling the result list in the order the tasks finish
CollectAsCompleted(scores, t, v) ==
    LET free == CHOOSE e \in DOMAIN scores :
                    scores[e] = <<>> /\ \A d \in 1..(e - 1) : scores[d] # <<>>
    IN  [scores EXCEPT ![free] = <<v>>]

\* joblib's result list: the score of task t goes to slot t
Collect(scores, t, v) == [scores EXCEPT ![t] = <<v>>]

\* grid.fit raises ValueError when there are fewer samples than folds
KdeReject ==
    /\ kpc = "search"
    /\ Len(ksample) < CvFolds
    /\ kpc' = "failed"
    /\ UNCHANGED <<ksample, krange, ksent, krunning, kscores, kbandwidth, ky, kpeak,
                   kreordered>>
    /\ UNCHANGED runvars

\* a free worker takes the next task
KdeDispatch ==
    /\ kpc = "search"
    /\ Len(ksample) >= CvFolds
    /\ ksent < NTasks
    /\ Cardinality(krunning) < NJobs
    /\ ksent' = ksent + 1
    /\ krunning' = krunning \cup {ksent + 1}
    /\ UNCHANGED <<ksample, krange, kpc, kscores, kbandwidth, ky, kpeak, kreordered>>
    /\ UNCHANGED runvars

\* a worker finishes its task
KdeComplete ==
    /\ kpc = "search"
    /\ \E t \in krunning :
          /\ kscores' = Collect(kscores, t, FoldScore(ksample, TaskCand(t), TaskFold(t)))
          /\ krunning' = krunning \ {t}
          /\ kreordered' = (kreordered \/ \E u \in krunning : u < t)
    /\ UNCHANGED <<ksample, krange, kpc, ksent, kbandwidth, ky, kpeak>>
    /\ UNCHANGED runvars

\* bandwidth = grid.best_params_['bandwidth'], once every task is done
KdeSelect ==
    /\ kpc = "search"
    /\ ksent = NTasks
    /\ krunning = {}
    /\ kbandwidth' = BestBandwidth([t \in 1..NTasks |-> kscores[t][1]], Len(ksample))
    /\ kpc' = "fit"
    /\ UNCHANGED <<ksample, krange, ksent, krunning, kscores, ky, kpeak, kreordered>>
    /\ UNCHANGED runvars

\* the density on the grid and its peak
KdeEvaluate ==
    /\ kpc = "fit"
    /\ ky' = GridDensity(ksample, kbandwidth, XGrid(krange[1], krange[2]))
    /\ kpeak' = Peak(XGrid(krange[1], krange[2]),
                     GridDensity(ksample, kbandwidth, XGrid(krange[1], krange[2])))
    /\ kpc' = "done"
    /\ UNCHANGED <<ksample, krange, ksent, krunning, kscores, kbandwidth, kreordered>>
    /\ UNCHANGED runvars

InitKde ==
    /\ files = [b \in Bands |-> GoodFile(NominalRows(b))]
    /\ order = <<"FUV", "NUV">>
    /\ pc = "kde"
    /\ bi = 1
    /\ data = [b \in Bands |-> NoTable]
    /\ ix = [b \in Bands |-> <<>>]
    /\ written = <<>>
    /\ out = [k \in Blocks \X Bands |-> <<>>]
    /\ err = "none"
    /\ krange \in KdeRanges
    /\ ksample \in SamplesOver(KdeValues(krange[1], krange[2]))
    /\ kpc = "search"
    /\ ksent = 0
    /\ krunning = {}
    /\ kscores = [t \in 1..NTasks |-> <<>>]
    /\ kbandwidth = Unset
    /\ ky = <<>>
    /\ kpeak = Unset
    /\ kreordered = FALSE

NextKde ==
    \/ KdeReject
    \/ KdeDispatch
    \/ KdeComplete
    \/ KdeSelect
    \/ KdeEvaluate

SpecKde == InitKde /\ [][NextKde]_vars

(***************************************************************************)
(* Properties of make_kde, checked under SpecKde.                          *)
(***************************************************************************)
\* the cross-validation score of candidate c on the sample, from the
\* sample alone
CvScore(c) ==
    MeanScore([t \in 1..NTasks |-> FoldScore(ksample, TaskCand(t), TaskFold(t))],
              Len(ksample), c)

Candidates == 1..NBandwidths

\* C2: make_kde returns as peak the point of the evenly spaced grid over
\* datarange at which the evaluated density is maximal, and of several
\* such points the first in grid order (the smallest x).
C2_PeakIsFirstMaximum ==
    kpc = "done" =>
        /\ Len(ky) = XGridSize
        /\ \E k \in 1..XGridSize :
              /\ kpeak = Linspace(krange[1], krange[2], XGridSize, k)
              /\ \A j \in 1..XGridSize : ky[j] <= ky[k]
              /\ \A j \in 1..(k - 1) : ky[j] < ky[k]

\* make_kde has returned a peak at which a nonzero maximal density is
\* shared by two grid points
C2_Witness ==
    /\ kpc = "done"
    /\ \E j, k \in 1..XGridSize :
          /\ j < k
          /\ ky[j] = ky[k]
          /\ ky[j] > 0
          /\ \A m \in 1..XGridSize : ky[m] <= ky[j]
          /\ kpeak = Linspace(krange[1], krange[2], XGridSize, j)

\* C10: whatever the order in which the workers finish the tasks, the
\* selected bandwidth is the first candidate in sweep order that attains
\* the maximum cross-validation score, so the bandwidth and the peak are
\* those of the sample and range alone.
C10_DeterministicSearch ==
    /\ kpc \in {"fit", "done"} =>
          \E c \in Candidates :
              /\ kbandwidth = Linspace(BwLo, BwHi, NBandwidths, c)
              /\ \A d \in Candidates : CvScore(d) <= CvScore(c)
              /\ \A d \in 1..(c - 1) : CvScore(d) < CvScore(c)
    /\ kpc = "done" =>
          /\ kbandwidth = MakeKde(ksample, krange[1], krange[2]).bandwidth
          /\ kpeak = MakeKde(ksample, krange[1], krange[2]).peak

\* a search whose tasks finished out of order has selected the first of
\* two candidates that share the maximum score
C10_Witness ==
    /\ kpc = "done"
    /\ kreordered
    /\ \E c, d \in Candidates :
          /\ c < d
          /\ CvScore(c) = CvScore(d)
          /\ \A e \in Candidates : CvScore(e) <= CvScore(c)
          /\ kbandwidth = Linspace(BwLo, BwHi, NBandwidths, c)

(***************************************************************************)
(* Properties of the script, checked under Spec.                           *)
(***************************************************************************)
Ran(block, b) == out[<<block, b>>] # <<>>
Rec(block, b) == out[<<block, b>>][1]

\* the rows of the band's input file that are unflagged and have a positive
\* aper4
ValidRows(b) ==
    {i \in 1..Len(files[b].rows) :
        files[b].rows[i].flags = 0 /\ files[b].rows[i].aper4 > 0}

\* the corrected magnitude of row i of band b in the processed-magnitude
\* ("g") and in the catalog-magnitude ("m") source
Corrected(src, b, i) ==
    IF src = "g"
    THEN files[b].rows[i].mag_mcatbgsub - ApCorrect1(radius, b)
    ELSE files[b].rows[i].aper4 - ApCorrect1(Aper2Deg(4), b)

\* row i's corrected magnitude is within the sigma envelope evaluated at
\* row i's own exposure time, both ends included
Contained(src, b, i, sigma) ==
    LET bounds == DataErrors(refmag[b], b, files[b].rows[i].exptime, sigma)
    IN  bounds[2] <= Corrected(src, b, i) /\ Corrected(src, b, i) <= bounds[1]

ScatterOf(src) == IF src = "g" THEN "gscatter" ELSE "mscatter"
DistOf(src) == IF src = "g" THEN "gdist" ELSE "mdist"
Sources == {"g", "m"}

\* C1: for every band and both data sources the containment count is the
\* number of masked rows whose corrected magnitude m satisfies
\* upperBound(t_i) <= m <= lowerBound(t_i), the bounds taken at the row's
\* own exposure time; hence 0 <= count <= total, total the size of the mask.
C1_ContainmentCount ==
    \A b \in Bands, src \in Sources :
        Ran(ScatterOf(src), b) =>
            LET r == Rec(ScatterOf(src), b)
            IN  /\ r.cnt = Cardinality({i \in ValidRows(b) : Contained(src, b, i, nsigma)})
                /\ r.total = Cardinality(ValidRows(b))
                /\ 0 <= r.cnt
                /\ r.cnt <= r.total

\* a scatter block has counted two rows of different exposure times: one
\* exactly on the faint bound of its exposure time, the other beyond that
\* bound but within the bound of its own exposure time
C1_Witness ==
    \E b \in Bands, src \in Sources :
        /\ Ran(ScatterOf(src), b)
        /\ Rec(ScatterOf(src), b).cnt = 2
        /\ \E i, j \in ValidRows(b) :
              /\ files[b].rows[i].exptime # files[b].rows[j].exptime
              /\ Corrected(src, b, i) =
                    DataErrors(refmag[b], b, files[b].rows[i].exptime, nsigma)[1]
              /\ Corrected(src, b, j) >
                    DataErrors(refmag[b], b, files[b].rows[i].exptime, nsigma)[1]

IsAscending(s) == \A k \in 1..(Len(s) - 1) : s[k] < s[k + 1]

\* C3: the validity mask of a band's table selects exactly the rows with
\* flag == 0 and aper4 > 0, whatever their magnitudes; once computed it is
\* never changed, and every later block works on that mask.
C3_ValidityMask ==
    /\ [](\A b \in Bands :
            /\ Ran("mask", b) =>
                  /\ IsAscending(ix[b])
                  /\ Range(ix[b]) = ValidRows(b)
            /\ \A blk \in {"gscatter", "gdist", "mscatter", "mdist"} :
                  Ran(blk, b) => Rec(blk, b).n = Cardinality(ValidRows(b)))
    /\ [][\A b \in Bands : Ran("mask", b) => ix'[b] = ix[b]]_vars

\* a later block has run on a mask that leaves out a flagged row or a row
\* without a positive aper4, and keeps another row
C3_Witness ==
    \E b \in Bands :
        /\ Ran("mask", b)
        /\ Ran("gscatter", b)
        /\ Range(ix[b]) # {}
        /\ \E i \in 1..Len(files[b].rows) : i \notin Range(ix[b])

\* the sigma2 envelope contains the sigma1 envelope at every exposure time
\* of the band's table
EnvelopeContains(b, s1, s2) ==
    \A i \in 1..Len(files[b].rows) :
        LET t  == files[b].rows[i].exptime
            e1 == DataErrors(refmag[b], b, t, s1)
            e2 == DataErrors(refmag[b], b, t, s2)
        IN  e2[2] <= e1[2] /\ e1[1] <= e2[1]

MaskReady == pc \in {"gscatter", "gdist", "mscatter", "mdist", "done"}

\* a scatter block, the place of the count, is the running block; the
\* tables and masks it counts over are those of every later state
Counting == pc \in {"gscatter", "mscatter"}

Sigmas == 1..MaxSigma

\* the percents of the gAperture counts of band b at sigma = 1..upto
RECURSIVE GPercents(_, _)
GPercents(b, upto) ==
    IF upto = 0 THEN <<>>
    ELSE Append(GPercents(b, upto - 1), Percent(GCount(b, upto), Len(ix[b])))

\* the percents of the MCAT counts of band b at sigma = 1..upto
RECURSIVE MPercents(_, _)
MPercents(b, upto) ==
    IF upto = 0 THEN <<>>
    ELSE Append(MPercents(b, upto - 1), Percent(MCount(b, upto), Len(ix[b])))

\* C4: for a fixed band, source, table and non-empty mask the percent
\* 100*count/total (integer division) does not decrease when sigma grows
\* to a sigma whose envelope contains the smaller one's everywhere.
C4_PercentMonotonic ==
    \A b \in Bands :
        (MaskReady /\ Len(ix[b]) > 0) =>
            /\ Counting =>
                  \A gpercent \in {GPercents(b, MaxSigma)},
                     mpercent \in {MPercents(b, MaxSigma)} :
                      \A s1, s2 \in Sigmas :
                          (s1 <= s2 /\ EnvelopeContains(b, s1, s2)) =>
                              /\ gpercent[s1] <= gpercent[s2]
                              /\ mpercent[s1] <= mpercent[s2]
            /\ Ran("gscatter", b) =>
                  Rec("gscatter", b).percent = Percent(GCount(b, nsigma), Len(ix[b]))
            /\ Ran("mscatter", b) =>
                  Rec("mscatter", b).percent = Percent(MCount(b, nsigma), Len(ix[b]))

\* a block has reported a percent that is strictly larger than the percent
\* of a smaller sigma, which in turn is strictly larger than that of a
\* still smaller one
C4_Witness ==
    \E b \in Bands :
        /\ Ran("gscatter", b)
        /\ EnvelopeContains(b, 1, 2)
        /\ EnvelopeContains(b, 2, nsigma)
        /\ Percent(GCount(b, 1), Len(ix[b])) < Percent(GCount(b, 2), Len(ix[b]))
        /\ Percent(GCount(b, 2), Len(ix[b])) < Rec("gscatter", b).percent

AllLoaded ==
    \A b \in Bands : files[b].status = "ok" /\ Columns \subseteq files[b].cols

\* C5: no output image is written unless both tables and every column a
\* plotting block uses were loaded.
C5_NoPlotUnlessAllLoaded ==
    written # <<>> => AllLoaded

Terminated == pc \in {"done", "failed"}

\* the masked sample of a band is degenerate: empty, or of fewer than two
\* distinct values in one of the two sources
Degenerate(b) ==
    \/ ValidRows(b) = {}
    \/ \E src \in Sources :
          Cardinality({Corrected(src, b, i) : i \in ValidRows(b)}) < 2

\* C6: a run on a band whose masked sample is degenerate fails with an
\* InsufficientDataError, and ends in no other way.
C6_DegenerateRaisesInsufficientData ==
    (Terminated /\ AllLoaded /\ \E b \in Bands : Degenerate(b)) =>
        (pc = "failed" /\ err = "InsufficientDataError")

\* the number of savefig calls on path p
Writes(p) == Cardinality({k \in DOMAIN written : written[k] = p})

\* C7 as stated: a complete run writes four files per band, named from the
\* target and the band, and writes no path more than once.
C7_FourFilesPerBand ==
    pc = "done" =>
        /\ \A j, k \in DOMAIN written : j # k => written[j] # written[k]
        /\ \A b \in Bands :
              Cardinality({k \in DOMAIN written : b \in Range(written[k])}) = 4

\* C7 as the script does it: a complete run calls savefig eight times.  The
\* two scatter figures of each band go to a path of their own, named from
\* the target and the band and written once.  The distribution figure of
\* each data source is one file for both bands, named from the target
\* alone and written once per band, that is twice.
C7_OutputFiles ==
    pc = "done" =>
        /\ Len(written) = 4 * Cardinality(Bands)
        /\ \A b \in Bands :
              /\ Writes(<<".", "LDS749B_90as", "ABMag", b, "pdf">>) = 1
              /\ Writes(<<".", "LDS749B_90as", "ABMag", b, "MCAT", "pdf">>) = 1
        /\ Writes(<<".", "LDS749B_90as", "ABMag_dist", "pdf">>) = Cardinality(Bands)
        /\ Writes(<<".", "LDS749B_90as", "ABMag_dist_MCAT", "pdf">>) = Cardinality(Bands)
        /\ Cardinality(Range(written)) = 2 * Cardinality(Bands) + 2

\* a complete run
C7_Witness ==
    /\ pc = "done"
    /\ \A b \in Bands : Ran("mdist", b)

\* C8 as stated: the correction subtracted in the processed-magnitude path
\* is apcorrect1(aper2deg(4), band), the one of the catalog path.
C8_SameCorrectionInBothPaths ==
    \A b \in Bands :
        Ran("gscatter", b) =>
            \A k \in 1..Len(files[b].rows) :
                Rec("gscatter", b).ebar[k] =
                    files[b].rows[k].mag_mcatbgsub - ApCorrect1(Aper2Deg(4), b)

\* C8 as the script does it: within each path one correction is used at
\* every place (error bars, masked points, both operands of the count,
\* histogram): apcorrect1(radius, band) with radius = 0.025 in the
\* processed-magnitude path, apcorrect1(aper2deg(4), band) in the catalog
\* path.
C8_CorrectionPerPath ==
    \A b \in Bands, src \in Sources :
        LET raw(i) == IF src = "g" THEN files[b].rows[i].mag_mcatbgsub
                      ELSE files[b].rows[i].aper4
            corr   == IF src = "g" THEN ApCorrect1(900, b) ELSE ApCorrect1(Aper2Deg(4), b)
            rows   == 1..Len(files[b].rows)
        IN  /\ Ran(ScatterOf(src), b) =>
                  LET r == Rec(ScatterOf(src), b)
                  IN  /\ \A i \in rows : r.ebar[i] = raw(i) - corr
                      /\ \A k \in DOMAIN ix[b] : r.pts[k] = raw(ix[b][k]) - corr
                      /\ \A k \in DOMAIN ix[b] :
                            LET lowop  == IF src = "g" THEN GCountLow(b) ELSE MCountLow(b)
                                highop == IF src = "g" THEN GCountHigh(b) ELSE MCountHigh(b)
                            IN  lowop[k] = raw(ix[b][k]) - corr /\ highop[k] = raw(ix[b][k]) - corr
            /\ Ran(DistOf(src), b) =>
                  LET r == Rec(DistOf(src), b)
                  IN  /\ \A i \in rows : r.mags[i] = raw(i) - corr
                      /\ \A k \in DOMAIN ix[b] : r.sample[k] = raw(ix[b][k]) - corr

\* all four blocks have run for a band whose two corrections differ
C8_Witness ==
    \E b \in Bands :
        /\ \A blk \in {"gscatter", "gdist", "mscatter", "mdist"} : Ran(blk, b)
        /\ ApCorrect1(radius, b) # ApCorrect1(Aper2Deg(4), b)

\* the masked corrected magnitudes of a source that are within [lo, hi]
InRange(src, b, lo, hi) ==
    {i \in ValidRows(b) : lo <= Corrected(src, b, i) /\ Corrected(src, b, i) <= hi}

\* the magnitude range of a source's histogram
RangeOf(src, b) ==
    IF src = "g" THEN <<refmag[b] - 200, refmag[b] + 700>>
    ELSE <<refmag[b] - 200, refmag[b] + 600>>

\* C9 as stated: the bin counts of each histogram sum to the number of
\* rows in the validity mask.
C9_HistogramCountsAll ==
    \A b \in Bands, src \in Sources :
        Ran(DistOf(src), b) =>
            SumSeq(Rec(DistOf(src), b).hist) = Cardinality(ValidRows(b))

\* C9 as the script does it: the 50 bin counts sum to the number of masked
\* rows whose corrected magnitude is within the histogram's fixed range,
\* ends included; each such row is counted in exactly one bin, the bin
\* that holds its magnitude (the last bin holds the range's upper end),
\* and a masked row outside the range is counted in none.
C9_HistogramCountsInRange ==
    \A b \in Bands, src \in Sources :
        Ran(DistOf(src), b) =>
            LET h  == Rec(DistOf(src), b).hist
                lo == RangeOf(src, b)[1]
                hi == RangeOf(src, b)[2]
                w  == (hi - lo) \div 50
            IN  \A in \in {{<<i, Corrected(src, b, i)>> : i \in InRange(src, b, lo, hi)}} :
                    /\ Len(h) = 50
                    /\ SumSeq(h) = Cardinality(in)
                    /\ \A j \in 1..50 :
                          h[j] = Cardinality({p \in in :
                                    /\ lo + (j - 1) * w <= p[2]
                                    /\ \/ p[2] < lo + j * w
                                       \/ j = 50})

\* a histogram has been drawn from a mask with a row outside the range and
\* a row on the range's upper end
C9_Witness ==
    \E b \in Bands, src \in Sources :
        /\ Ran(DistOf(src), b)
        /\ SumSeq(Rec(DistOf(src), b).hist) < Cardinality(ValidRows(b))
        /\ Rec(DistOf(src), b).hist[50] = 1

====
